---- MODULE Spec2Model ----
(***************************************************************************)
(* Model of the stack-based state machine of crates/state/src/state.rs.    *)
(*                                                                         *)
(* A State object is identified by a positive integer.  StateMachine::new  *)
(* owns state 1; every state a caller or an update hook constructs later   *)
(* is a fresh identifier (a Box is moved into the machine at most once).   *)
(* A hook is arbitrary user code: each call either succeeds or fails.      *)
(* The machine's fields are `running` and `states`; `log` is the history   *)
(* of hook calls and `last` describes the latest public operation, so that *)
(* the ordering and frame properties can be stated over states.            *)
(*                                                                         *)
(* `control_flow` and `loop_destroyed` belong to the event loop that       *)
(* crates/app/src/app.rs drives the machine from, and `particle` is a      *)
(* Particle of crates/physics/src/particle.rs.                             *)
(***************************************************************************)
EXTENDS Integers, Sequences, FiniteSets

VARIABLES running, states, log, entered, nextId, last, startCalled, startSucceeded,
          control_flow, loop_destroyed, particle

vars == <<running, states, log, entered, nextId, last, startCalled, startSucceeded,
          control_flow, loop_destroyed, particle>>

\* Bounds of the exploration.
MaxStates == 3
MaxLog == 6
MaxDriverLog == 9
MaxReal == 3

StateIds == 1..MaxStates
HookResults == {TRUE, FALSE}
NoFailure == {TRUE}

Last(s) == s[Len(s)]
Front(s) == SubSeq(s, 1, Len(s) - 1)

RECURSIVE Reverse(_)
Reverse(s) == IF s = <<>> THEN <<>> ELSE Append(Reverse(Tail(s)), Head(s))

\* The machine as a value: the two fields of the struct plus the history.
Machine == [running |-> running, states |-> states, log |-> log,
            entered |-> entered, nextId |-> nextId]

\* Transition<T>: the payload of Push and Switch is the identifier of the
\* boxed state, 0 for the variants without payload.
TransitionNone == [kind |-> "None", sid |-> 0]
TransitionPop == [kind |-> "Pop", sid |-> 0]
TransitionQuit == [kind |-> "Quit", sid |-> 0]
TransitionPush(s) == [kind |-> "Push", sid |-> s]
TransitionSwitch(s) == [kind |-> "Switch", sid |-> s]

\* The entry of the history of a call that returned no transition.
NoTransition == [kind |-> "-", sid |-> 0]

\* The transitions a caller (or an update hook) can build in machine m: the
\* payload of Push and Switch is a newly constructed state.
Transitions(m) ==
    {TransitionNone, TransitionPop, TransitionQuit}
        \cup (IF m.nextId <= MaxStates
              THEN {TransitionPush(m.nextId), TransitionSwitch(m.nextId)}
              ELSE {})

\* Constructing a state consumes its identifier.
Construct(m, t) ==
    IF t.sid = 0 THEN m ELSE [m EXCEPT !.nextId = t.sid + 1]

\* One entry of the hook history: the hook, the state it was called on, its
\* outcome, whether that state was the tail of the stack at the moment of the
\* call, and (for update) the transition returned.
Event(m, h, id, ok, tr) ==
    [hook |-> h, id |-> id, ok |-> ok,
     tail |-> (m.states # <<>> /\ Last(m.states) = id), tr |-> tr]

\* A call of a lifecycle hook h on state id with the possible results R: the
\* set of [m, ok] continuations.
Hook(m, R, h, id) ==
    { [m |-> [m EXCEPT !.log = Append(@, Event(m, h, id, ok, NoTransition))], ok |-> ok]
        : ok \in R }

\* A call of State::update on state id: it fails, or returns one of the
\* transitions T(m), constructing the payload state.
UpdateHook(m, R, id) ==
    (IF FALSE \in R
     THEN {[m |-> [m EXCEPT !.log = Append(@, Event(m, "update", id, FALSE, NoTransition))],
            ok |-> FALSE, tr |-> TransitionNone]}
     ELSE {})
    \cup
    (IF TRUE \in R
     THEN {[m |-> Construct([m EXCEPT !.log = Append(@, Event(m, "update", id, TRUE, t))], t),
            ok |-> TRUE, tr |-> t] : t \in Transitions(m)}
     ELSE {})

\* The value an operation returns with the machine it leaves behind.
Ret(m, res) == [m |-> m, res |-> res]
HookRet(c) == Ret(c.m, IF c.ok THEN "Ok" ELSE "HookErr")

\* Vec::push of a boxed state.
PushState(m, s) ==
    [m EXCEPT !.states = Append(@, s), !.entered = @ \cup {s}]

\* Vec::pop.
PopState(m) == [m EXCEPT !.states = Front(@)]

\* Option<String> as a sequence of at most one label; the label of a state
\* is its identifier.
label(id) == id
active_state_label(m) ==
    IF ~m.running THEN <<>>
    ELSE IF m.states = <<>> THEN <<>> ELSE <<label(Last(m.states))>>

is_running(m) == m.running

\* active_state_mut()? followed by a lifecycle hook on the tail.
HookOnActive(m, R, h) ==
    IF m.states = <<>> THEN {Ret(m, "NoStatesPresent")}
    ELSE {HookRet(c) : c \in Hook(m, R, h, Last(m.states))}

\* start without the early return of a running machine.
start_unguarded(m, R) ==
    HookOnActive([m EXCEPT !.running = TRUE], R, "on_start")

\* A start that clears the flag again when on_start fails.
start_rollback(m, R) ==
    IF m.running THEN {Ret(m, "Ok")}
    ELSE { IF r.res = "HookErr" THEN Ret([r.m EXCEPT !.running = FALSE], r.res) ELSE r
             : r \in HookOnActive([m EXCEPT !.running = TRUE], R, "on_start") }

\* A start that sets the flag without calling on_start.
start_silent(m, R) ==
    IF m.running THEN {Ret(m, "Ok")}
    ELSE IF m.states = <<>> THEN {Ret([m EXCEPT !.running = TRUE], "NoStatesPresent")}
    ELSE {Ret([m EXCEPT !.running = TRUE], "Ok")}

\* A start that puts the initial state back on an empty stack.
start_refill(m, R) ==
    IF m.running THEN {Ret(m, "Ok")}
    ELSE HookOnActive(IF m.states = <<>>
                      THEN PushState([m EXCEPT !.running = TRUE], 1)
                      ELSE [m EXCEPT !.running = TRUE], R, "on_start")

start(m, R) ==
    IF m.running THEN {Ret(m, "Ok")}
    ELSE HookOnActive([m EXCEPT !.running = TRUE], R, "on_start")

\* A drain that removes the states from the bottom of the stack.
RECURSIVE drain_fifo(_, _)
drain_fifo(m, R) ==
    IF m.states = <<>> THEN {Ret([m EXCEPT !.running = FALSE], "Ok")}
    ELSE UNION { IF c.ok THEN drain_fifo(c.m, R) ELSE {HookRet(c)}
                   : c \in Hook([m EXCEPT !.states = Tail(@)], R, "on_stop",
                                Head(m.states)) }

\* A drain that clears the running flag when an on_stop fails.
RECURSIVE drain_halts_on_failure(_, _)
drain_halts_on_failure(m, R) ==
    IF m.states = <<>> THEN {Ret([m EXCEPT !.running = FALSE], "Ok")}
    ELSE UNION { IF c.ok THEN drain_halts_on_failure(c.m, R)
                 ELSE {Ret([c.m EXCEPT !.running = FALSE], "HookErr")}
                   : c \in Hook(PopState(m), R, "on_stop", Last(m.states)) }

\* The loop of stop: pop the tail and call its on_stop until the stack is
\* empty, then clear the running flag; a failing on_stop returns at once.
RECURSIVE drain(_, _)
drain(m, R) ==
    IF m.states = <<>> THEN {Ret([m EXCEPT !.running = FALSE], "Ok")}
    ELSE UNION { IF c.ok THEN drain(c.m, R) ELSE {HookRet(c)}
                   : c \in Hook(PopState(m), R, "on_stop", Last(m.states)) }

stop(m, R) ==
    IF ~m.running THEN {Ret(m, "Ok")} ELSE drain(m, R)

\* A pop-and-stop that drops the removed state without calling its on_stop.
PopAndStop_silent(m, R) ==
    IF m.states = <<>> THEN {[m |-> m, ok |-> TRUE]}
    ELSE {[m |-> PopState(m), ok |-> TRUE]}

\* A pop-and-stop that swallows the failure of on_stop.
PopAndStop_swallow(m, R) ==
    IF m.states = <<>> THEN {[m |-> m, ok |-> TRUE]}
    ELSE {[m |-> c.m, ok |-> TRUE] : c \in Hook(PopState(m), R, "on_stop", Last(m.states))}

\* `if let Some(mut state) = self.states.pop() { state.on_stop(resources)?; }`
\* the continuations after the optional pop-and-stop, as [m, ok].
PopAndStop(m, R) ==
    IF m.states = <<>> THEN {[m |-> m, ok |-> TRUE]}
    ELSE Hook(PopState(m), R, "on_stop", Last(m.states))

\* A switch that pauses the old tail instead of removing it.
switch_as_push(m, R, s) ==
    IF ~m.running THEN {Ret(m, "Ok")}
    ELSE UNION { IF c.ok THEN HookOnActive(PushState(c.m, s), R, "on_start")
                 ELSE {HookRet(c)}
                   : c \in (IF m.states = <<>> THEN {[m |-> m, ok |-> TRUE]}
                            ELSE Hook(m, R, "on_pause", Last(m.states))) }

\* A switch that takes the new state off the stack when its on_start fails.
switch_rollback(m, R, s) ==
    IF ~m.running THEN {Ret(m, "Ok")}
    ELSE UNION { IF c.ok
                 THEN { IF r.res = "HookErr" THEN Ret(PopState(r.m), r.res) ELSE r
                          : r \in HookOnActive(PushState(c.m, s), R, "on_start") }
                 ELSE {HookRet(c)}
                   : c \in PopAndStop(m, R) }

switch(m, R, s) ==
    IF ~m.running THEN {Ret(m, "Ok")}
    ELSE UNION { IF c.ok THEN HookOnActive(PushState(c.m, s), R, "on_start")
                 ELSE {HookRet(c)}
                   : c \in PopAndStop(m, R) }

\* A pause delivered to the bottom of the stack instead of the tail.
PauseActive_bottom(m, R) ==
    IF m.states = <<>> THEN {[m |-> m, ok |-> TRUE]}
    ELSE Hook(m, R, "on_pause", Head(m.states))

\* A pause whose failure is swallowed.
PauseActive_swallow(m, R) ==
    IF m.states = <<>> THEN {[m |-> m, ok |-> TRUE]}
    ELSE {[m |-> c.m, ok |-> TRUE] : c \in Hook(m, R, "on_pause", Last(m.states))}

\* `if let Ok(state) = self.active_state_mut() { state.on_pause(resources)?; }`
PauseActive(m, R) ==
    IF m.states = <<>> THEN {[m |-> m, ok |-> TRUE]}
    ELSE Hook(m, R, "on_pause", Last(m.states))

\* A push that checks nothing and pauses nothing.
push_unguarded(m, R, s) ==
    HookOnActive(PushState(m, s), R, "on_start")

\* A push that appends the new state before pausing the old tail.
push_append_first(m, R, s) ==
    IF ~m.running THEN {Ret(m, "Ok")}
    ELSE UNION { IF c.ok THEN HookOnActive(c.m, R, "on_start")
                 ELSE {HookRet(c)}
                   : c \in PauseActive(PushState(m, s), R) }

push(m, R, s) ==
    IF ~m.running THEN {Ret(m, "Ok")}
    ELSE UNION { IF c.ok THEN HookOnActive(PushState(c.m, s), R, "on_start")
                 ELSE {HookRet(c)}
                   : c \in PauseActive(m, R) }

\* A pop tail that leaves the flag set on an empty stack.
ResumeOrHalt_keeps_running(m, R) ==
    IF m.states # <<>>
    THEN {HookRet(c) : c \in Hook(m, R, "on_resume", Last(m.states))}
    ELSE {Ret(m, "Ok")}

\* A pop tail that never resumes the new tail.
ResumeOrHalt_no_resume(m, R) ==
    IF m.states # <<>>
    THEN {Ret(m, "Ok")}
    ELSE {Ret([m EXCEPT !.running = FALSE], "Ok")}

\* The tail of pop: resume the new tail, or stop running on an empty stack.
ResumeOrHalt(m, R) ==
    IF m.states # <<>>
    THEN {HookRet(c) : c \in Hook(m, R, "on_resume", Last(m.states))}
    ELSE {Ret([m EXCEPT !.running = FALSE], "Ok")}

\* A pop without the early return of a stopped machine.
pop_unguarded(m, R) ==
    UNION { IF c.ok THEN ResumeOrHalt(c.m, R) ELSE {HookRet(c)}
              : c \in PopAndStop(m, R) }

pop(m, R) ==
    IF ~m.running THEN {Ret(m, "Ok")}
    ELSE UNION { IF c.ok THEN ResumeOrHalt(c.m, R) ELSE {HookRet(c)}
                   : c \in PopAndStop(m, R) }

transition(m, R, request) ==
    IF ~m.running THEN {Ret(m, "Ok")}
    ELSE CASE request.kind = "None" -> {Ret(m, "Ok")}
           [] request.kind = "Pop" -> pop(m, R)
           [] request.kind = "Push" -> push(m, R, request.sid)
           [] request.kind = "Switch" -> switch(m, R, request.sid)
           [] request.kind = "Quit" -> stop(m, R)

update(m, R) ==
    IF ~m.running THEN {Ret(m, "Ok")}
    ELSE IF m.states = <<>> THEN {Ret(m, "NoStatesPresent")}
    ELSE UNION { IF c.ok THEN transition(c.m, R, c.tr) ELSE {HookRet(c)}
                   : c \in UpdateHook(m, R, Last(m.states)) }

\* Vector3 as a triple; Real is modelled by the integers.
VZero == <<0, 0, 0>>

\* Particle::default(): every field is zero.
DefaultParticle ==
    [position |-> VZero, velocity |-> VZero, acceleration |-> VZero,
     damping |-> 0, inverse_mass |-> 0, force_accumulator |-> VZero]

\* Vector + Vector and Vector * Real, element by element.
VAdd(a, b) == <<a[1] + b[1], a[2] + b[2], a[3] + b[3]>>
VScale(a, k) == <<a[1] * k, a[2] * k, a[3] * k>>

\* Real::powf for the whole positive exponents of the model.
RECURSIVE Pow(_, _)
Pow(b, e) == IF e <= 0 THEN 1 ELSE b * Pow(b, e - 1)

add_force(p, force) ==
    [p EXCEPT !.force_accumulator = VAdd(@, force)]

integrate(p, duration) ==
    IF p.inverse_mass <= 0 \/ duration <= 0 THEN p
    ELSE LET position == VAdd(p.position, VScale(p.velocity, duration))
             acceleration ==
                 VAdd(p.acceleration, VScale(p.force_accumulator, p.inverse_mass))
             velocity == VAdd(p.velocity, VScale(acceleration, duration))
         IN [p EXCEPT !.position = position,
                      !.velocity = VScale(velocity, Pow(p.damping, duration)),
                      !.force_accumulator = VZero]

\* StateMachine::new(initial_state), before any call.
InitMachine ==
    /\ running = FALSE
    /\ states = <<1>>
    /\ log = <<>>
    /\ entered = {1}
    /\ nextId = 2
    /\ last = [op |-> "new", arg |-> TransitionNone, running |-> FALSE,
               states |-> <<>>, loglen |-> 0, res |-> "Ok"]
    /\ startCalled = FALSE
    /\ startSucceeded = FALSE

\* The event loop has not delivered an event yet (ControlFlow starts as Poll).
InitLoop ==
    /\ control_flow = "Poll"
    /\ loop_destroyed = FALSE

Init ==
    /\ InitMachine
    /\ InitLoop
    /\ particle = DefaultParticle

\* The particles a caller can build: the fields are public.
Particles ==
    [position : {VZero},
     velocity : {VZero, <<1, 0, 0>>},
     acceleration : {VZero, <<0, -1, 0>>},
     damping : {0, 1},
     inverse_mass : {-1, 0, 1, 2},
     force_accumulator : {VZero}]

InitParticle ==
    /\ InitMachine
    /\ InitLoop
    /\ particle \in Particles

\* The machine after a public operation op (with argument arg) that returned
\* r; `last` keeps what the operation was applied to.
Assign(op, arg, r) ==
    /\ running' = r.m.running
    /\ states' = r.m.states
    /\ log' = r.m.log
    /\ entered' = r.m.entered
    /\ nextId' = r.m.nextId
    /\ last' = [op |-> op, arg |-> arg, running |-> running, states |-> states,
                loglen |-> Len(log), res |-> r.res]

\* A call made on the machine directly: the event loop and the particle are
\* not involved.
Apply(op, arg, r) ==
    /\ Assign(op, arg, r)
    /\ UNCHANGED <<control_flow, loop_destroyed, particle>>

\* The history is kept within MaxLog entries at the start of an operation.
InBound == Len(log) < MaxLog

StartCall(R) ==
    \E r \in start(Machine, R) :
        /\ Apply("start", TransitionNone, r)
        /\ startCalled' = TRUE
        /\ startSucceeded' = (startSucceeded \/ r.res = "Ok")

Start(R) == InBound /\ StartCall(R)

UpdateCall(R) ==
    \E r \in update(Machine, R) :
        /\ Apply("update", TransitionNone, r)
        /\ UNCHANGED <<startCalled, startSucceeded>>

Update(R) == InBound /\ UpdateCall(R)

\* A direct call of transition with a request the caller built.
Transition(R) ==
    /\ InBound
    /\ \E t \in Transitions(Machine) :
        \E r \in transition(Construct(Machine, t), R, t) :
            /\ Apply("transition", t, r)
            /\ UNCHANGED <<startCalled, startSucceeded>>

Push(R) ==
    /\ InBound
    /\ nextId <= MaxStates
    /\ LET t == TransitionPush(nextId) IN
        \E r \in push(Construct(Machine, t), R, t.sid) :
            /\ Apply("push", t, r)
            /\ UNCHANGED <<startCalled, startSucceeded>>

Switch(R) ==
    /\ InBound
    /\ nextId <= MaxStates
    /\ LET t == TransitionSwitch(nextId) IN
        \E r \in switch(Construct(Machine, t), R, t.sid) :
            /\ Apply("switch", t, r)
            /\ UNCHANGED <<startCalled, startSucceeded>>

Pop(R) ==
    /\ InBound
    /\ \E r \in pop(Machine, R) :
        /\ Apply("pop", TransitionPop, r)
        /\ UNCHANGED <<startCalled, startSucceeded>>

StopCall(R) ==
    \E r \in stop(Machine, R) :
        /\ Apply("stop", TransitionQuit, r)
        /\ UNCHANGED <<startCalled, startSucceeded>>

Stop(R) == InBound /\ StopCall(R)

\* Every public operation, with hooks that may fail.
Next ==
    \/ Start(HookResults)
    \/ Update(HookResults)
    \/ Transition(HookResults)
    \/ Push(HookResults)
    \/ Switch(HookResults)
    \/ Pop(HookResults)
    \/ Stop(HookResults)

Spec == Init /\ [][Next]_vars

\* The same operations with hooks that all succeed.
NextNoFail ==
    \/ Start(NoFailure)
    \/ Update(NoFailure)
    \/ Transition(NoFailure)
    \/ Push(NoFailure)
    \/ Switch(NoFailure)
    \/ Pop(NoFailure)
    \/ Stop(NoFailure)

SpecNoFail == Init /\ [][NextNoFail]_vars

\* The events the event loop hands to run_loop: CloseRequested stands for
\* a WindowEvent::CloseRequested of the application's window, WindowEvent
\* for any other window event, Other for every remaining event.
LoopEvents ==
    {"MainEventsCleared", "CloseRequested", "WindowEvent", "LoopDestroyed", "Other"}

\* The result of run_loop: the machine, the Result returned (the variant of
\* app::Error) and whether control_flow.set_exit() was called.
LoopRet(m, res, exit) == [m |-> m, res |-> res, exit |-> exit]
MapErr(r, err) == IF r.res = "Ok" THEN "Ok" ELSE err

run_loop(m, R, event) ==
    UNION { IF s.res # "Ok" THEN {LoopRet(s.m, "StartStateMachine", FALSE)}
            ELSE CASE event = "MainEventsCleared" ->
                        {LoopRet(u.m, MapErr(u, "UpdateStateMachine"), FALSE)
                           : u \in update(s.m, R)}
                   [] event = "CloseRequested" -> {LoopRet(s.m, "Ok", TRUE)}
                   [] event = "LoopDestroyed" ->
                        {LoopRet(u.m, MapErr(u, "StopStateMachine"), FALSE)
                           : u \in stop(s.m, R)}
                   [] OTHER -> {LoopRet(s.m, "Ok", FALSE)}
              : s \in (IF ~is_running(m) THEN start(m, R) ELSE {Ret(m, "Ok")}) }

\* The event loop: once control_flow is Exit the next event is LoopDestroyed,
\* the last one; until then LoopDestroyed is not delivered.
NextEvents ==
    IF control_flow = "Exit" THEN {"LoopDestroyed"}
    ELSE LoopEvents \ {"LoopDestroyed"}

\* One call of the closure of event_loop.run: run_loop on the next event
\* (set_poll first, set_exit on CloseRequested).
RunLoop(R) ==
    /\ InBound
    /\ ~loop_destroyed
    /\ \E event \in NextEvents :
        \E o \in run_loop(Machine, R, event) :
            /\ Assign("run_loop", [kind |-> event, sid |-> 0], Ret(o.m, o.res))
            /\ control_flow' = (IF o.exit THEN "Exit" ELSE "Poll")
            /\ loop_destroyed' = (event = "LoopDestroyed")
            /\ startCalled' = (startCalled \/ ~running)
            /\ startSucceeded' =
                 (startSucceeded \/ (~running /\ o.res # "StartStateMachine"))
            /\ UNCHANGED particle

\* The application: the machine is only driven by run_loop.
NextLoop == RunLoop(HookResults)

SpecLoop == Init /\ [][NextLoop]_vars

\* The forces and durations the callers of a particle pass.
Forces == {<<1, 0, 0>>, <<0, -2, 0>>}
Durations == {-1, 0, 1, 2}

Abs(x) == IF x < 0 THEN -x ELSE x
VInBound(v) == \A i \in 1..3 : Abs(v[i]) <= MaxReal

\* The particle is followed while its vectors are within MaxReal.
ParticleInBound ==
    /\ VInBound(particle.position)
    /\ VInBound(particle.velocity)
    /\ VInBound(particle.force_accumulator)

\* A call on the particle: the machine and the event loop are not involved.
ParticleCall(op, arg) ==
    /\ last' = [op |-> op, arg |-> arg, running |-> running, states |-> states,
                loglen |-> Len(log), res |-> "Ok"]
    /\ UNCHANGED <<running, states, log, entered, nextId, startCalled,
                   startSucceeded, control_flow, loop_destroyed>>

AddForce ==
    /\ ParticleInBound
    /\ \E force \in Forces :
        /\ particle' = add_force(particle, force)
        /\ ParticleCall("add_force", [kind |-> "force", sid |-> 0])

\* The duration is kept in the sid field of the argument.
Integrate ==
    /\ ParticleInBound
    /\ \E duration \in Durations :
        /\ particle' = integrate(particle, duration)
        /\ ParticleCall("integrate", [kind |-> "duration", sid |-> duration])

NextParticle ==
    \/ AddForce
    \/ Integrate

SpecParticle == InitParticle /\ [][NextParticle]_vars

\* A driver that only calls start, update and stop, on states whose hooks
\* all succeed, with a longer history.
DriverInBound == Len(log) < MaxDriverLog

DriverStart == DriverInBound /\ StartCall(NoFailure)
DriverUpdate == DriverInBound /\ UpdateCall(NoFailure)
DriverStop == DriverInBound /\ StopCall(NoFailure)

NextDriver ==
    \/ DriverStart
    \/ DriverUpdate
    \/ DriverStop

SpecDriver == Init /\ [][NextDriver]_vars

\* The same driver on states whose hooks may fail.
NextDriverFail ==
    \/ Start(HookResults)
    \/ Update(HookResults)
    \/ Stop(HookResults)

SpecDriverFail == Init /\ [][NextDriverFail]_vars

TypeOK ==
    /\ running \in BOOLEAN
    /\ \A i \in 1..Len(states) : states[i] \in StateIds
    /\ entered \subseteq StateIds
    /\ nextId \in 2..(MaxStates + 1)
    /\ control_flow \in {"Poll", "Exit"}
    /\ loop_destroyed \in BOOLEAN

(***************************************************************************)
(* Vocabulary of the properties.                                           *)
(***************************************************************************)

\* The hook calls of the latest operation.
NewEvents == SubSeq(log, last.loglen + 1, Len(log))

\* Whether the latest operation was an update whose hook returned a
\* transition.
UpdateReturned ==
    /\ last.op = "update"
    /\ NewEvents # <<>>
    /\ NewEvents[1].hook = "update"
    /\ NewEvents[1].ok

\* The transition request the latest operation applied to a running machine.
Applied ==
    IF ~last.running THEN NoTransition
    ELSE IF last.op = "update"
         THEN (IF UpdateReturned THEN NewEvents[1].tr ELSE NoTransition)
    ELSE IF last.op \in {"transition", "push", "pop", "switch", "stop"}
         THEN last.arg
    ELSE NoTransition

\* The hook calls made while applying that request.
OpEvents == IF last.op = "update" THEN Tail(NewEvents) ELSE NewEvents

Calls(evs) == [i \in 1..Len(evs) |-> <<evs[i].hook, evs[i].id>>]
AllOk(evs) == \A i \in 1..Len(evs) : evs[i].ok
Count(h, id) == Cardinality({i \in 1..Len(log) : log[i].hook = h /\ log[i].id = id})
OnStack(id) == \E i \in 1..Len(states) : states[i] = id
HooksUsed(evs) == {evs[i].hook : i \in 1..Len(evs)}

\* The only call of the operation was hook h on state id, and it failed.
OnlyFailed(h, id) ==
    /\ Len(OpEvents) = 1
    /\ Calls(OpEvents) = <<<<h, id>>>>
    /\ ~OpEvents[1].ok

(***************************************************************************)
(* C1..C10                                                                 *)
(***************************************************************************)

\* C1: when Quit (or stop) is applied to a running machine of depth n >= 1
\* and every hook the operation calls succeeds, the calls are exactly on_stop
\* on each of the n states from the top of the stack to the bottom, the
\* operation returns success, the stack is empty and running is false.
C1_QuitDrainsTopToBottom ==
    (/\ Applied.kind = "Quit"
     /\ Len(last.states) >= 1
     /\ AllOk(OpEvents))
    => /\ Calls(OpEvents)
            = [i \in 1..Len(last.states) |-> <<"on_stop", Reverse(last.states)[i]>>]
       /\ states = <<>>
       /\ ~running
       /\ last.res = "Ok"

C1_Witness ==
    /\ last.op = "update"
    /\ Applied.kind = "Quit"
    /\ Len(last.states) = 2
    /\ AllOk(OpEvents)
    /\ Len(OpEvents) = 2

\* C2 (as stated): Push(S) on a running machine makes the depth one more and
\* S the tail, with on_pause on the previous tail and then on_start on S as
\* the only calls.
C2_PushAsStated ==
    Applied.kind = "Push"
    => /\ Len(states) = Len(last.states) + 1
       /\ Last(states) = Applied.sid
       /\ (last.states # <<>>
            => Calls(OpEvents) = << <<"on_pause", Last(last.states)>>,
                                    <<"on_start", Applied.sid>> >>)

\* C2 (amended): unless the on_pause of the previous tail fails, Push(S) on a
\* running machine appends S to the stack, and its only calls are on_pause on
\* the previous tail (when there is one) followed by on_start on S.
C2_PushUnlessPauseFails ==
    Applied.kind = "Push"
    => \/ (last.states # <<>> /\ OnlyFailed("on_pause", Last(last.states)))
       \/ /\ states = Append(last.states, Applied.sid)
          /\ running
          /\ Calls(OpEvents) =
                (IF last.states = <<>> THEN <<>>
                 ELSE << <<"on_pause", Last(last.states)>> >>)
                \o << <<"on_start", Applied.sid>> >>

C2_Witness ==
    /\ Applied.kind = "Push"
    /\ Len(last.states) = 2
    /\ Len(states) = 3
    /\ Len(OpEvents) = 2

\* C3 (as stated): Pop on a running machine of depth >= 2 removes the tail,
\* calls on_stop on it and then on_resume on the new tail and keeps running;
\* at depth 1 it calls on_stop only, empties the stack and clears running.
C3_PopAsStated ==
    (Applied.kind = "Pop" /\ Len(last.states) >= 1)
    => /\ states = Front(last.states)
       /\ IF Len(last.states) >= 2
          THEN /\ Calls(OpEvents) = << <<"on_stop", Last(last.states)>>,
                                       <<"on_resume", Last(states)>> >>
               /\ running
          ELSE /\ Calls(OpEvents) = << <<"on_stop", Last(last.states)>> >>
               /\ ~running

\* C3 (amended): the same, unless the on_stop of the removed state fails (the
\* state is then removed, nothing else is called and running stays true).
C3_PopUnlessStopFails ==
    (Applied.kind = "Pop" /\ Len(last.states) >= 1)
    => \/ /\ OnlyFailed("on_stop", Last(last.states))
          /\ states = Front(last.states)
          /\ running
       \/ /\ states = Front(last.states)
          /\ IF Len(last.states) >= 2
             THEN /\ Calls(OpEvents) = << <<"on_stop", Last(last.states)>>,
                                          <<"on_resume", Last(states)>> >>
                  /\ running
             ELSE /\ Calls(OpEvents) = << <<"on_stop", Last(last.states)>> >>
                  /\ ~running

C3_Witness ==
    /\ Applied.kind = "Pop"
    /\ Len(last.states) = 2
    /\ Len(OpEvents) = 2
    /\ running

\* C4 (as stated): Switch(S) on a running machine keeps the depth, calls
\* on_stop on the old tail and then on_start on S, makes S the tail, leaves
\* the states below alone and calls neither on_pause nor on_resume.
C4_SwitchAsStated ==
    Applied.kind = "Switch"
    => /\ Len(states) = Len(last.states)
       /\ states = Append(Front(last.states), Applied.sid)
       /\ Calls(OpEvents) = << <<"on_stop", Last(last.states)>>,
                               <<"on_start", Applied.sid>> >>

\* C4 (amended): unless the on_stop of the old tail fails, Switch(S) on a
\* running machine removes the old tail (when there is one), appends S above
\* the untouched lower states, and its only calls are on_stop on the old tail
\* followed by on_start on S; the depth is unchanged when there was an old
\* tail, and no on_pause or on_resume is ever called by the operation.
C4_SwitchUnlessStopFails ==
    Applied.kind = "Switch"
    => /\ HooksUsed(OpEvents) \cap {"on_pause", "on_resume", "update"} = {}
       /\ \/ (last.states # <<>> /\ OnlyFailed("on_stop", Last(last.states)))
          \/ /\ running
             /\ IF last.states = <<>>
                THEN /\ states = <<Applied.sid>>
                     /\ Calls(OpEvents) = << <<"on_start", Applied.sid>> >>
                ELSE /\ states = Append(Front(last.states), Applied.sid)
                     /\ Len(states) = Len(last.states)
                     /\ Calls(OpEvents) = << <<"on_stop", Last(last.states)>>,
                                             <<"on_start", Applied.sid>> >>

C4_Witness ==
    /\ Applied.kind = "Switch"
    /\ Len(last.states) = 2
    /\ Len(states) = 2
    /\ Len(OpEvents) = 2

\* C5: every call of update, on_pause or on_resume was made on the state that
\* was the tail of the stack at the moment of the call.
C5_OnlyTailIsDriven ==
    \A i \in 1..Len(log) :
        log[i].hook \in {"update", "on_pause", "on_resume"} => log[i].tail

C5_Witness ==
    /\ \E i \in 1..Len(log) : log[i].hook = "on_pause"
    /\ \E i \in 1..Len(log) : log[i].hook = "on_resume"
    /\ \E i \in 1..Len(log) : log[i].hook = "update"
    /\ Len(states) >= 2

\* C6: no state receives on_start or on_stop twice; a state on the stack of a
\* running machine has received its one on_start (as the tail) and no
\* on_stop; a state that has left the stack has received exactly one of each;
\* a state that never entered the stack has received neither.
C6_OneStartOneStop ==
    /\ \A id \in StateIds :
        /\ Count("on_start", id) <= 1
        /\ Count("on_stop", id) <= 1
        /\ (OnStack(id) /\ running) => Count("on_start", id) = 1
        /\ OnStack(id) => Count("on_stop", id) = 0
        /\ (id \in entered /\ ~OnStack(id))
             => (Count("on_start", id) = 1 /\ Count("on_stop", id) = 1)
        /\ id \notin entered
             => (Count("on_start", id) = 0 /\ Count("on_stop", id) = 0)
    /\ \A i \in 1..Len(log) : log[i].hook = "on_start" => log[i].tail

C6_Witness ==
    /\ Cardinality({id \in entered : ~OnStack(id)}) >= 2
    /\ \E id \in entered : OnStack(id)
    /\ running

\* C7: whenever running is true the stack holds at least one state.
C7_RunningImpliesNonEmpty == running => states # <<>>

\* C8 (as stated): until a call of start has returned success, is_running()
\* is false and active_state_label() is None.
C8_AsStated ==
    ~startSucceeded
    => (~is_running(Machine) /\ active_state_label(Machine) = <<>>)

\* C8 (amended): until start has been called, whatever else has been called,
\* no hook has been invoked, the stack holds exactly the initial state,
\* is_running() is false and active_state_label() is None.
C8_IdleUntilStartCalled ==
    ~startCalled
    => /\ log = <<>>
       /\ states = <<1>>
       /\ ~is_running(Machine)
       /\ active_state_label(Machine) = <<>>

C8_Witness ==
    /\ ~startCalled
    /\ last.op = "push"
    /\ nextId > 2

\* C9: start on a running machine returns success, calls no hook and changes
\* neither the stack nor the flag; once start has been called the initial
\* state has received exactly one on_start, however often start is repeated.
C9_StartIdempotent ==
    /\ (last.op = "start" /\ last.running)
        => /\ last.res = "Ok"
           /\ NewEvents = <<>>
           /\ states = last.states
           /\ running
    /\ startCalled => Count("on_start", 1) = 1

C9_Witness ==
    /\ last.op = "start"
    /\ last.running
    /\ last.states = <<1>>
    /\ Calls(log) = << <<"on_start", 1>> >>

\* C10: while running is false, update, transition, push, pop, switch and
\* stop return success, call no hook and change neither stack nor flag.
C10_NoOpWhenNotRunning ==
    (~last.running
        /\ last.op \in {"update", "transition", "push", "pop", "switch", "stop"})
    => /\ last.res = "Ok"
       /\ NewEvents = <<>>
       /\ states = last.states
       /\ ~running

C10_Witness ==
    /\ ~last.running
    /\ last.op = "pop"
    /\ last.states = <<1>>
    /\ states = <<1>>

(***************************************************************************)
(* C11..C20                                                                *)
(***************************************************************************)

IsCall(i, h, id) == log[i].hook = h /\ log[i].id = id
ResumesAfter(j, id) == {r \in (j + 1)..Len(log) : IsCall(r, "on_resume", id)}
FailedStopsAfter(j) ==
    {r \in (j + 1)..Len(log) : log[r].hook = "on_stop" /\ ~log[r].ok}

\* C11 (as stated): a state that has received on_pause stays in the stack
\* and receives no update until it has received a later on_resume.
C11_AsStated ==
    \A j \in 1..Len(log) :
        log[j].hook = "on_pause"
        => LET p == log[j].id IN
            /\ ResumesAfter(j, p) = {} => OnStack(p)
            /\ \A k \in (j + 1)..Len(log) :
                IsCall(k, "update", p) => \E r \in ResumesAfter(j, p) : r < k

\* C11 (amended): a state whose on_pause succeeded receives no update until
\* it has received a later on_resume or an on_stop has failed in between, and
\* as long as neither has happened it leaves the stack only in the drain of
\* stop, right after the on_stop of the state above it.
C11_PausedUntilResumed ==
    \A j \in 1..Len(log) :
        (log[j].hook = "on_pause" /\ log[j].ok)
        => LET p == log[j].id IN
            /\ \A k \in (j + 1)..Len(log) :
                IsCall(k, "update", p)
                => \E r \in ResumesAfter(j, p) \cup FailedStopsAfter(j) : r < k
            /\ (ResumesAfter(j, p) = {} /\ FailedStopsAfter(j) = {} /\ ~OnStack(p))
                => \E r \in (j + 1)..Len(log) :
                    /\ IsCall(r, "on_stop", p)
                    /\ log[r - 1].hook = "on_stop"
                    /\ log[r - 1].ok

C11_Witness ==
    \E j \in 1..Len(log) :
        /\ log[j].hook = "on_pause"
        /\ log[j].ok
        /\ \E k \in (j + 1)..Len(log) : IsCall(k, "update", log[j].id)
        /\ \E k \in (j + 1)..Len(log) :
            log[k].hook = "update" /\ log[k].id # log[j].id
                /\ ResumesAfter(j, log[j].id) \cap 1..k = {}

\* The kinds of the transitions the update hooks have returned so far.
IsUpdateReturn(e) == e.hook = "update" /\ e.ok
ReturnedKinds ==
    LET U == SelectSeq(log, IsUpdateReturn) IN [i \in 1..Len(U) |-> U[i].tr.kind]

\* The hook trace of the scenario: A is state 1 and B is state 2.
ScenarioTrace ==
    << <<"on_start", 1>>, <<"update", 1>>, <<"on_pause", 1>>, <<"on_start", 2>>,
       <<"update", 2>>, <<"on_stop", 2>>, <<"on_resume", 1>>,
       <<"update", 1>>, <<"on_stop", 1>> >>

\* C12: with all hooks succeeding, new(A), start, then updates returning
\* Push(B), Pop and Quit produce exactly ScenarioTrace, and right after each
\* of the three updates (depth, active label, running) is (2, B, true),
\* (1, A, true) and (0, None, false).
C12_Scenario ==
    UpdateReturned
    => /\ ReturnedKinds = <<"Push">>
            => /\ Calls(log) = SubSeq(ScenarioTrace, 1, 4)
               /\ Len(states) = 2
               /\ active_state_label(Machine) = <<label(2)>>
               /\ is_running(Machine)
       /\ ReturnedKinds = <<"Push", "Pop">>
            => /\ Calls(log) = SubSeq(ScenarioTrace, 1, 7)
               /\ Len(states) = 1
               /\ active_state_label(Machine) = <<label(1)>>
               /\ is_running(Machine)
       /\ ReturnedKinds = <<"Push", "Pop", "Quit">>
            => /\ Calls(log) = ScenarioTrace
               /\ Len(states) = 0
               /\ active_state_label(Machine) = <<>>
               /\ ~is_running(Machine)

C12_Witness ==
    /\ UpdateReturned
    /\ ReturnedKinds = <<"Push", "Pop", "Quit">>
    /\ Len(log) = 9

\* C13: active_state_label() is None exactly when the machine is not
\* running, and the label of the tail of the stack whenever it is running.
C13_LabelIffRunning ==
    /\ (active_state_label(Machine) = <<>>) <=> ~is_running(Machine)
    /\ is_running(Machine)
        => (states # <<>> /\ active_state_label(Machine) = <<label(Last(states))>>)

\* Whether the latest operation ended in a failing hook call.
HookFailed == NewEvents # <<>> /\ ~Last(NewEvents).ok
StopCalls(evs) == Cardinality({i \in 1..Len(evs) : evs[i].hook = "on_stop"})

\* The stack the calls before the failure have made: the states whose on_stop
\* was called are gone, and a state that was pushed and started is there.
StackAtFailure ==
    SubSeq(last.states, 1, Len(last.states) - StopCalls(NewEvents))
        \o (IF Last(NewEvents).hook = "on_start" /\ last.op # "start"
            THEN <<Last(NewEvents).id>> ELSE <<>>)

\* C14: a failing hook call is the last call of its operation and the
\* operation returns the failure; an operation returns a hook failure only
\* then; the stack and the flag are left as the earlier steps of the
\* operation made them.
C14_FailureAborts ==
    /\ \A i \in 1..Len(NewEvents) :
        ~NewEvents[i].ok => (i = Len(NewEvents) /\ last.res = "HookErr")
    /\ last.res = "HookErr" => HookFailed
    /\ HookFailed => (running /\ states = StackAtFailure)

C14_Witness ==
    /\ HookFailed
    /\ Applied.kind = "Switch"
    /\ Len(OpEvents) = 2
    /\ Len(last.states) = 2

\* The on_start of state id failed in a switch, right after the on_stop of
\* the state it replaced succeeded.
FailedSwitchStart(id) ==
    \E i \in 2..Len(log) :
        /\ IsCall(i, "on_start", id)
        /\ ~log[i].ok
        /\ log[i - 1].hook = "on_stop"
        /\ log[i - 1].ok

\* The latest operation was an update of a running machine with tail id.
UpdateOfTail(id) ==
    /\ last.op = "update"
    /\ last.running
    /\ last.states # <<>>
    /\ Last(last.states) = id

UpdateDelivered(id) ==
    /\ NewEvents # <<>>
    /\ NewEvents[1].hook = "update"
    /\ NewEvents[1].id = id

\* C15: when Switch(S) stops the old tail and the on_start of S fails, the
\* failure is returned with S in place of the old tail and running true;
\* afterwards an update of the machine with S as tail is delivered to S, and
\* once S has left the stack it has received its on_stop.
C15_SwitchStartFails ==
    /\ (/\ Applied.kind = "Switch"
        /\ last.states # <<>>
        /\ Len(OpEvents) = 2
        /\ OpEvents[1].ok
        /\ ~OpEvents[2].ok)
        => /\ Calls(OpEvents) = << <<"on_stop", Last(last.states)>>,
                                   <<"on_start", Applied.sid>> >>
           /\ last.res = "HookErr"
           /\ states = Append(Front(last.states), Applied.sid)
           /\ running
    /\ \A id \in StateIds :
        FailedSwitchStart(id)
        => /\ UpdateOfTail(id) => UpdateDelivered(id)
           /\ ~OnStack(id) => Count("on_stop", id) = 1

C15_Witness ==
    \E id \in StateIds :
        /\ FailedSwitchStart(id)
        /\ UpdateOfTail(id)
        /\ UpdateDelivered(id)
        /\ ~OnStack(id)

\* The first start called on_start on the initial state and it failed.
FirstStartFailed == log # <<>> /\ IsCall(1, "on_start", 1) /\ ~log[1].ok

\* C16: when start is called on a machine that is not running and the
\* on_start of the tail fails, start returns the failure with running true
\* and the stack unchanged; a later start on the running machine is a no-op
\* that calls no on_start, and a later update is delivered to that tail.
C16_StartFails ==
    /\ (/\ last.op = "start"
        /\ ~last.running
        /\ last.states # <<>>
        /\ HookFailed)
        => /\ Calls(NewEvents) = << <<"on_start", Last(last.states)>> >>
           /\ last.res = "HookErr"
           /\ running
           /\ states = last.states
    /\ FirstStartFailed
        => /\ Count("on_start", 1) = 1
           /\ (last.op = "start" /\ last.running)
                => (NewEvents = <<>> /\ last.res = "Ok" /\ states = last.states)
           /\ UpdateOfTail(1) => UpdateDelivered(1)

C16_Witness ==
    /\ FirstStartFailed
    /\ UpdateOfTail(1)
    /\ UpdateDelivered(1)
    /\ Count("on_start", 1) = 1

\* C17: no operation returns NoStatesPresent.
C17_NeverNoStatesPresent == last.res # "NoStatesPresent"

\* C18: an update of a running machine calls the update hook of the tail
\* exactly once, as its first call; a returned None changes nothing, and a
\* failing update hook ends the operation with stack and flag unchanged.
C18_UpdateCallsTailOnce ==
    (last.op = "update" /\ last.running)
    => /\ last.states # <<>>
       /\ UpdateDelivered(Last(last.states))
       /\ Cardinality({i \in 1..Len(NewEvents) : NewEvents[i].hook = "update"}) = 1
       /\ (NewEvents[1].ok /\ NewEvents[1].tr.kind = "None")
            => (Len(NewEvents) = 1 /\ states = last.states /\ running)
       /\ ~NewEvents[1].ok
            => /\ Len(NewEvents) = 1
               /\ states = last.states
               /\ running
               /\ last.res = "HookErr"

\* C19: after a call of integrate the force accumulator of the particle is
\* zero.
C19_AccumulatorCleared ==
    last.op = "integrate" => particle.force_accumulator = VZero

\* The latest operation was run_loop on a machine that had stopped: not
\* running, with an empty stack.
LoopAfterStop ==
    last.op = "run_loop" /\ ~last.running /\ last.states = <<>>

\* C20: under run_loop the initial state is started at most once, an event
\* calls the update hook once if it is MainEventsCleared and never
\* otherwise, and once the machine has stopped every event is processed
\* without error, calls no hook and leaves running false.
C20_LoopAfterQuit ==
    /\ Count("on_start", 1) <= 1
    /\ last.op = "run_loop"
        => Cardinality({i \in 1..Len(NewEvents) : NewEvents[i].hook = "update"})
             <= (IF last.arg.kind = "MainEventsCleared" THEN 1 ELSE 0)
    /\ LoopAfterStop
        => (last.res = "Ok" /\ NewEvents = <<>> /\ ~running)

(***************************************************************************)
(* C21..C24                                                                *)
(***************************************************************************)

\* The calls of a drain that went k states deep into stack st.
DrainCalls(st, k) == [i \in 1..k |-> <<"on_stop", Reverse(st)[i]>>]

\* C21: when stop (or Quit) is applied to a running machine and an on_stop
\* fails, the calls were on_stop from the tail down to the failing state, the
\* failure is returned with the failing state removed, the states below it
\* still on the stack in their order without any on_stop, and running true;
\* every stop of a running machine starts its drain at the current tail, and
\* no state ever receives on_stop twice.
C21_StopFailureLeavesRest ==
    /\ (Applied.kind = "Quit" /\ OpEvents # <<>> /\ ~Last(OpEvents).ok)
        => LET k == Len(OpEvents) IN
            /\ k <= Len(last.states)
            /\ Calls(OpEvents) = DrainCalls(last.states, k)
            /\ last.res = "HookErr"
            /\ states = SubSeq(last.states, 1, Len(last.states) - k)
            /\ \A i \in 1..Len(states) : Count("on_stop", states[i]) = 0
            /\ running
    /\ (Applied.kind = "Quit" /\ last.states # <<>>)
        => /\ OpEvents # <<>>
           /\ Calls(OpEvents)[1] = <<"on_stop", Last(last.states)>>
    /\ \A id \in StateIds : Count("on_stop", id) <= 1

C21_Witness ==
    /\ last.op = "stop"
    /\ Applied.kind = "Quit"
    /\ Len(last.states) = 3
    /\ Len(OpEvents) = 2
    /\ ~Last(OpEvents).ok
    /\ Len(states) = 1

\* The states constructed so far.
Constructed == 1..(nextId - 1)

\* C22: when Push(S) is applied to a running machine and the on_pause of the
\* current tail fails, that call is the only one, the failure is returned,
\* the stack and the flag are as before and S is not on the stack; a state
\* that never entered the stack never receives on_start or on_stop.
C22_PushPauseFails ==
    /\ (/\ Applied.kind = "Push"
        /\ last.states # <<>>
        /\ OpEvents # <<>>
        /\ ~OpEvents[1].ok)
        => /\ Calls(OpEvents) = << <<"on_pause", Last(last.states)>> >>
           /\ last.res = "HookErr"
           /\ states = last.states
           /\ running
           /\ Applied.sid \notin entered
    /\ \A id \in Constructed \ entered :
        Count("on_start", id) = 0 /\ Count("on_stop", id) = 0

C22_Witness ==
    /\ Applied.kind = "Push"
    /\ Len(last.states) = 2
    /\ OnlyFailed("on_pause", Last(last.states))
    /\ Applied.sid \notin entered

\* C23 (as stated): every update call on a state comes after an on_start
\* call on that state that succeeded.
C23_AsStated ==
    \A k \in 1..Len(log) :
        log[k].hook = "update"
        => \E j \in 1..(k - 1) : IsCall(j, "on_start", log[k].id) /\ log[j].ok

\* C23 (amended): every update call on a state comes after an on_start call
\* on that state, whether or not that call succeeded.
C23_UpdateAfterStartCall ==
    \A k \in 1..Len(log) :
        log[k].hook = "update"
        => \E j \in 1..(k - 1) : IsCall(j, "on_start", log[k].id)

C23_Witness ==
    \E k \in 1..Len(log) :
        /\ log[k].hook = "update"
        /\ log[k].id # 1
        /\ \E j \in 1..(k - 1) : IsCall(j, "on_start", log[k].id) /\ ~log[j].ok

\* C24: a driver that only calls start, update and stop never sees an empty
\* stack become non-empty again, and no hook is called while it is empty.
C24_EmptyStaysEmpty ==
    [][states = <<>> => (states' = <<>> /\ log' = log)]_vars

C24_Witness ==
    /\ last.op = "start"
    /\ last.states = <<>>
    /\ ~last.running
    /\ last.res = "NoStatesPresent"
    /\ states = <<>>
    /\ Count("on_stop", 1) = 1

====
